---------------------------- MODULE Spec2Model ----------------------------
(***************************************************************************)
(* tide-static-files: path resolution and buffer sizing (utils.rs           *)
(* resolve_path, buffer_size), the forbidden-pattern guard, Endpoint::call  *)
(* and StaticFiles::serve (lib.rs), FileRequest::work (file_request.rs),    *)
(* and the chunked file reader (file_stream.rs new_file_stream /            *)
(* read_worker).                                                            *)
(*                                                                          *)
(* Paths are strings, modelled as sequences of one-character strings.       *)
(* std::path (PathBuf::push, PathBuf::pop, Path::join, Path::components)    *)
(* is modelled with its Unix behaviour.                                     *)
(***************************************************************************)
EXTENDS Integers, Sequences, FiniteSets, TLC

VARIABLES
    base,        \* StaticFiles.base / the base argument of resolve_path
    url_path,    \* the raw request path (matches.vec[0])
    path_pc,     \* "idle" | "request" | "called" | "served" | "resolved" |
                 \*   "worked"
    resolved,    \* the Option<PathBuf> returned by resolve_path
    opened,      \* the Option<PathBuf> handed to File::open by serve
    response,    \* the http response of call, serve or work, or a panic
    params,      \* Endpoint::call's params: None, or Some(matches.vec.len())
    files,       \* the regular files below base, as component sequences
    io           \* how the request's file operations went: "none" |
                 \*   "open_err" | "meta_err" | "read_err" | "ok"

VARIABLES
    file_len,    \* length of the open file (end of file)
    file_pos,    \* the file's cursor, moved by seek and read
    range,       \* read_worker's range: [start, end)
    range0,      \* the range new_file_stream was called with
    nfs_pc,      \* new_file_stream: "idle" | "spawned" | "returned"
    pc,          \* read_worker: "unspawned" | "seek" | "loop" | "send" |
                 \*   "flush" | "done" | "panicked"
    item,        \* the item of the send in progress
    queue,       \* the channel's message queue
    parked,      \* the worker's sender is parked (waits for a receive)
    senders,     \* number of live Sender handles of the channel
    rx,          \* the Receiver: "none" | "held" | "open" | "eos" | "dropped"
    received,    \* the items the consumer has received, in order
    short_reads, \* reads so far that returned less than they could
    eof_reads,   \* reads so far that returned 0 bytes
    pool_threads \* live worker threads of FILE_IO_POOL

VARIABLES
    remaining,   \* buffer_size's argument: a u64, as four 16-bit digits
    usize_bits,  \* the width of usize on the target
    size_pc,     \* "idle" | "call" | "returned"
    buf_size     \* the usize buffer_size returned, as digits

path_vars == <<base, url_path, path_pc, resolved, opened, response, params,
               files, io>>

stream_vars == <<file_len, file_pos, range, range0, nfs_pc, pc, item, queue,
                 parked, senders, rx, received, short_reads, eof_reads,
                 pool_threads>>

size_vars == <<remaining, usize_bits, size_pc, buf_size>>

vars == <<path_vars, stream_vars, size_vars>>

(***************************************************************************)
(* Bounds of the model.                                                     *)
(***************************************************************************)
MaxSegs == 3

\* The segments request paths are made of: the empty segment, ".", "..",
\* and names with and without a leading dot, a star, a backslash, a
\* percent-encoded separator.
Segments ==
    { <<>>, <<".">>, <<".", ".">>, <<"a">>, <<".", "a">>, <<"a", ".", ".">>,
      <<"*">>, <<"a", "*">>, <<"a", "\\", "a">>, <<"\\", "\\">>,
      <<"a", "%", "2", "F">> }

RECURSIVE JoinSegs(_)
JoinSegs(segs) ==
    IF Len(segs) = 1 THEN segs[1]
    ELSE segs[1] \o <<"/">> \o JoinSegs(Tail(segs))

\* The raw request paths: one to MaxSegs segments joined by "/".
AllPaths ==
    {JoinSegs(segs) : segs \in UNION {[1..n -> Segments] : n \in 1..MaxSegs}}

MaxMatches == 2

\* ThreadPool::new(): one thread per cpu.
PoolSize == 2

\* The file systems a request meets: the file a/a below base is there or
\* not, and so is the file a below the directory literally named a%2F.
FileSystems ==
    { {},
      {<<(<<"a">>), (<<"a">>)>>},
      {<<(<<"a">>), (<<"a">>)>>, <<(<<"a", "%", "2", "F">>), (<<"a">>)>>} }

\* Base directories: an absolute one and a relative one with a trailing
\* separator.
Bases == {<<"/", "b">>, <<"b", "/">>}

None == [tag |-> "None"]
Some(x) == [tag |-> "Some", val |-> x]

Min(a, b) == IF a < b THEN a ELSE b

(***************************************************************************)
(* std::path on Unix.                                                       *)
(***************************************************************************)
Dot == <<".">>
DotDot == <<".", ".">>
RootDir == <<"/">>

\* str::split('/'): the segments between separators, empty ones included.
RECURSIVE Split(_)
Split(s) ==
    IF \A i \in 1..Len(s) : s[i] # "/"
    THEN <<s>>
    ELSE LET i == CHOOSE k \in 1..Len(s) :
                      s[k] = "/" /\ \A j \in 1..(k - 1) : s[j] # "/"
         IN  <<SubSeq(s, 1, i - 1)>> \o Split(SubSeq(s, i + 1, Len(s)))

is_absolute(p) == Len(p) > 0 /\ p[1] = "/"

\* A path without its trailing separators (the root keeps its one).
RECURSIVE TrimSep(_)
TrimSep(p) ==
    IF Len(p) > 0 /\ p[Len(p)] = "/"
    THEN IF \A i \in 1..Len(p) : p[i] = "/"
         THEN IF Len(p) > 0 THEN RootDir ELSE <<>>
         ELSE TrimSep(SubSeq(p, 1, Len(p) - 1))
    ELSE p

\* Path::components: RootDir for a leading separator, then the segments,
\* with empty segments dropped and "." dropped except as the first
\* component of a relative path.
Components(p) ==
    LET segs == Split(p)
        keep(i) == /\ segs[i] # <<>>
                   /\ (segs[i] = Dot => (i = 1))
        Idx == {i \in 1..Len(segs) : keep(i)}
        RECURSIVE Pick(_)
        Pick(i) == IF i > Len(segs) THEN <<>>
                   ELSE IF i \in Idx THEN <<segs[i]>> \o Pick(i + 1)
                   ELSE Pick(i + 1)
    IN  (IF is_absolute(p) THEN <<RootDir>> ELSE <<>>) \o Pick(1)

\* push that puts the new component in front of the buffer.
push_prepend(buf, path) ==
    IF Len(buf) > 0 THEN path \o <<"/">> \o buf ELSE path

\* PathBuf::push: an absolute argument replaces the buffer; otherwise a
\* separator is added when the buffer is not empty and does not end in one.
push(buf, path) ==
    LET need_sep == Len(buf) > 0 /\ buf[Len(buf)] # "/"
    IN  IF is_absolute(path) THEN path
        ELSE IF need_sep THEN buf \o <<"/">> \o path
        ELSE buf \o path

\* Path::parent: None when there is no last component or it is the root;
\* otherwise the path up to, not including, the last component.
parent(p) ==
    LET t == TrimSep(p)
    IN  IF t = <<>> \/ t = RootDir THEN None
        ELSE LET Seps == {k \in 1..Len(t) : t[k] = "/"}
                 k == IF Seps = {} THEN 0
                      ELSE CHOOSE m \in Seps : \A n \in Seps : n <= m
             IN  Some(TrimSep(SubSeq(t, 1, k)))

\* pop that empties the buffer.
pop_all(buf) == <<>>

\* PathBuf::pop: truncate to the parent; false when there is none.
pop_ok(buf) == parent(buf).tag = "Some"
pop(buf) == IF pop_ok(buf) THEN parent(buf).val ELSE buf

\* Path::join
join(b, path) == push(b, path)

(***************************************************************************)
(* utils.rs: resolve_path                                                   *)
(***************************************************************************)
\* resolve_loop with ".." on an empty accumulator skipped instead of
\* rejected.
RECURSIVE resolve_loop_clamped(_, _)
resolve_loop_clamped(addition, components) ==
    IF components = <<>> THEN Some(addition)
    ELSE LET component == Head(components)
         IN  IF component = Dot
             THEN resolve_loop_clamped(addition, Tail(components))
             ELSE IF component = DotDot
             THEN resolve_loop_clamped(pop(addition), Tail(components))
             ELSE resolve_loop_clamped(push(addition, component), Tail(components))

RECURSIVE resolve_loop(_, _)
resolve_loop(addition, components) ==
    IF components = <<>> THEN Some(addition)
    ELSE LET component == Head(components)
         IN  IF component = Dot
             THEN resolve_loop(addition, Tail(components))
             ELSE IF component = DotDot
             THEN IF ~pop_ok(addition) THEN None
                  ELSE resolve_loop(pop(addition), Tail(components))
             ELSE resolve_loop(push(addition, component), Tail(components))

resolve_path(b, path) ==
    LET addition == resolve_loop(<<>>, Split(path))
    IN  IF addition.tag = "None" THEN None
        ELSE Some(join(b, addition.val))

(***************************************************************************)
(* lib.rs: the forbidden-pattern guard, StaticFiles::path_traversal_regex.  *)
(* Regex::is_match searches the whole string for one of the alternatives.   *)
(***************************************************************************)
At(s, i) == IF i \in 1..Len(s) THEN s[i] ELSE ""

\* (\.\.[/\\])
DoubleDots(s) ==
    \E i \in 1..Len(s) :
        At(s, i) = "." /\ At(s, i + 1) = "." /\ At(s, i + 2) \in {"/", "\\"}
\* (/\.)
HiddenAfterSlash(s) == \E i \in 1..Len(s) : At(s, i) = "/" /\ At(s, i + 1) = "."
\* (^\.)
HiddenInitial(s) == At(s, 1) = "."
\* (^\*)
InitialStar(s) == At(s, 1) = "*"
\* (\\\\): in the raw string this is the regex for two backslashes in a row
DoubleBackslash(s) == \E i \in 1..Len(s) : At(s, i) = "\\" /\ At(s, i + 1) = "\\"

\* The guard without its hidden-file alternatives.
path_traversal_regex_no_hidden(s) ==
    \/ DoubleDots(s)
    \/ InitialStar(s)
    \/ DoubleBackslash(s)

path_traversal_regex(s) ==
    \/ DoubleDots(s)
    \/ HiddenAfterSlash(s)
    \/ HiddenInitial(s)
    \/ InitialStar(s)
    \/ DoubleBackslash(s)

(***************************************************************************)
(* lib.rs: responses and StaticFiles::serve                                 *)
(***************************************************************************)
NoItem == [ok |-> FALSE, off |-> 0, len |-> 0, kind |-> "none"]

NoResponse == [status |-> 0, body |-> "none"]
not_found_response == [status |-> 404, body |-> "empty"]
ok_response == [status |-> 200, body |-> "file"]
Panicked == [status |-> 0, body |-> "panic"]

\* The chunked reader before any stream exists.
\* buffer_size is not being called.
SizeIdle ==
    /\ remaining = <<0, 0, 0, 0>>
    /\ usize_bits = 64
    /\ size_pc = "idle"
    /\ buf_size = <<0, 0, 0, 0>>

StreamIdle ==
    /\ file_len = 0
    /\ file_pos = 0
    /\ range = [start |-> 0, end |-> 0]
    /\ range0 = [start |-> 0, end |-> 0]
    /\ nfs_pc = "idle"
    /\ pc = "unspawned"
    /\ item = NoItem
    /\ queue = <<>>
    /\ parked = FALSE
    /\ senders = 0
    /\ rx = "none"
    /\ received = <<>>
    /\ short_reads = 0
    /\ eof_reads = 0
    /\ pool_threads = PoolSize

\* Option<RouteMatch>: None, or Some with 0 to MaxMatches matched segments.
Params == {None} \cup {Some(n) : n \in 0..MaxMatches}

\* A request: the route match and, when it has exactly one segment, any
\* raw path as that segment.
InitPath ==
    /\ StreamIdle
    /\ SizeIdle
    /\ base \in Bases
    /\ params \in Params
    /\ url_path \in (IF params = Some(1) THEN AllPaths ELSE {<<>>})
    /\ files \in FileSystems
    /\ io = "none"
    /\ path_pc = "request"
    /\ resolved = None
    /\ opened = None
    /\ response = NoResponse

\* A call of resolve_path(base, url_path).
ResolvePath ==
    /\ path_pc = "request"
    /\ resolved' = resolve_path(base, url_path)
    /\ path_pc' = "resolved"
    /\ UNCHANGED <<base, url_path, opened, response, params, files, io,
                   stream_vars, size_vars>>

\* call answering 404 where it would panic.
CallPanics_Lenient ==
    /\ path_pc = "request"
    /\ params # Some(1)
    /\ response' = not_found_response
    /\ path_pc' = "called"
    /\ UNCHANGED <<base, url_path, resolved, opened, params, files, io,
                   stream_vars, size_vars>>

\* Endpoint::call with params other than Some of exactly one segment:
\* panic!("multiple segments") or unimplemented!("static file index").
CallPanics ==
    /\ path_pc = "request"
    /\ params # Some(1)
    /\ response' = Panicked
    /\ path_pc' = "called"
    /\ UNCHANGED <<base, url_path, resolved, opened, params, files, io,
                   stream_vars, size_vars>>

\* Endpoint::call with one segment runs StaticFiles::serve on it: the
\* guard answers 404 before anything is opened.
ServeRejected ==
    /\ path_pc = "request"
    /\ params = Some(1)
    /\ path_traversal_regex(url_path)
    /\ response' = not_found_response
    /\ path_pc' = "served"
    /\ UNCHANGED <<base, url_path, resolved, opened, params, files, io,
                   stream_vars, size_vars>>

\* The components of p below b (p has b's components as a prefix).
Below(b, p) == SubSeq(Components(p), Len(Components(b)) + 1, Len(Components(p)))

HasPrefix(b, p) ==
    /\ Len(Components(p)) >= Len(Components(b))
    /\ SubSeq(Components(p), 1, Len(Components(b))) = Components(b)

\* File::open(p): a path below base opens only if it names one of the
\* files; nothing is known of the paths outside base. An open can fail
\* for a file that is there.
CanOpen(p) == HasPrefix(base, p) => Below(base, p) \in files

\* ServeOpen on the percent-decoded path: "%2F" is read as "/".
ServeOpen_Decoding ==
    LET RECURSIVE percent_decode(_)
        percent_decode(s) ==
            IF s = <<>> THEN <<>>
            ELSE IF Len(s) >= 3 /\ SubSeq(s, 1, 3) = <<"%", "2", "F">>
                 THEN <<"/">> \o percent_decode(SubSeq(s, 4, Len(s)))
                 ELSE <<s[1]>> \o percent_decode(Tail(s))
        decoded == percent_decode(url_path)
    IN  /\ path_pc = "request"
        /\ params = Some(1)
        /\ ~path_traversal_regex(url_path)
        /\ opened' = Some(join(base, decoded))
        /\ \E outcome \in {"open_err"}
                            \cup (IF CanOpen(join(base, decoded))
                                  THEN {"read_err", "ok"} ELSE {}) :
             /\ io' = outcome
             /\ response' = CASE outcome = "open_err" -> not_found_response
                              [] outcome = "read_err" -> Panicked
                              [] OTHER -> ok_response
        /\ path_pc' = "served"
        /\ UNCHANGED <<base, url_path, resolved, params, files, stream_vars,
                       size_vars>>

\* StaticFiles::serve past the guard: open base.join(path); an open error
\* gives 404, a read_to_end error panics (expect), otherwise 200.
ServeOpen ==
    /\ path_pc = "request"
    /\ params = Some(1)
    /\ ~path_traversal_regex(url_path)
    /\ opened' = Some(join(base, url_path))
    /\ \E outcome \in {"open_err"}
                        \cup (IF CanOpen(join(base, url_path))
                              THEN {"read_err", "ok"} ELSE {}) :
         /\ io' = outcome
         /\ response' = CASE outcome = "open_err" -> not_found_response
                          [] outcome = "read_err" -> Panicked
                          [] OTHER -> ok_response
    /\ path_pc' = "served"
    /\ UNCHANGED <<base, url_path, resolved, params, files, stream_vars,
                   size_vars>>

MAX_BUFFER_SIZE == 1024 * 1024 * 10

MaxDelta == 1

\* Offsets and file lengths: around 0, one buffer and two buffers.
Offsets ==
    {k * MAX_BUFFER_SIZE + d : k \in 0..2, d \in (0 - MaxDelta)..MaxDelta} \cap Nat

\* utils.rs: the responses of FileRequest::work
utils_not_found_response == [status |-> 404, body |-> "not found"]
server_error_response == [status |-> 500, body |-> "not found"]
stream_response == [status |-> 200, body |-> "stream"]

\* FileRequest::work on the path resolve_path returned: None is answered
\* 404; a File::open error and a metadata error are both answered with
\* server_error_response; otherwise the response's body is
\* new_file_stream(file, 0..size), which has spawned the worker and
\* returned the receiver.
Work ==
    /\ path_pc = "resolved"
    /\ path_pc' = "worked"
    /\ IF resolved = None
       THEN /\ response' = utils_not_found_response
            /\ UNCHANGED <<opened, io, stream_vars>>
       ELSE /\ opened' = resolved
            /\ \E outcome \in {"open_err"}
                                \cup (IF CanOpen(resolved.val)
                                      THEN {"meta_err", "ok"} ELSE {}) :
                 /\ io' = outcome
                 /\ IF outcome = "ok"
                    THEN /\ response' = stream_response
                         /\ \E size \in Offsets :
                              /\ file_len' = size
                              /\ range0' = [start |-> 0, end |-> size]
                              /\ range' = [start |-> 0, end |-> size]
                         /\ nfs_pc' = "returned"
                         /\ senders' = 1
                         /\ rx' = "open"
                         /\ pc' = "seek"
                         /\ UNCHANGED <<file_pos, item, queue, parked, received,
                                        short_reads, eof_reads, pool_threads>>
                    ELSE /\ response' = server_error_response
                         /\ UNCHANGED stream_vars
    /\ UNCHANGED <<base, url_path, resolved, params, files, size_vars>>

NextPath == ResolvePath \/ CallPanics \/ ServeRejected \/ ServeOpen \/ Work

SpecPath == InitPath /\ [][NextPath]_vars

(***************************************************************************)
(* Properties of path resolution and of serve (under SpecPath).             *)
(***************************************************************************)
Ordinary(seg) == seg # <<>> /\ seg # Dot /\ seg # DotDot

\* Some ".." segment comes when the ".." segments so far outnumber the
\* named segments so far: it is processed with nothing left to pop.
EscapeAttempt(path) ==
    LET segs == Split(path)
    IN  \E i \in 1..Len(segs) :
            /\ segs[i] = DotDot
            /\ Cardinality({j \in 1..i : segs[j] = DotDot})
                 > Cardinality({j \in 1..i : Ordinary(segs[j])})

\* p is b or a descendant of b, component by component, with no ".."
\* below b.
IsWithin(b, p) ==
    LET cb == Components(b)
        cp == Components(p)
    IN  /\ Len(cp) >= Len(cb)
        /\ SubSeq(cp, 1, Len(cb)) = cb
        /\ \A i \in (Len(cb) + 1)..Len(cp) : cp[i] # DotDot

HasDotDotSegment(path) == \E i \in 1..Len(Split(path)) : Split(path)[i] = DotDot

\* C1: resolve_path returns None whenever a ".." segment is processed with
\* an empty accumulator, and every Some(p) it returns is base or a
\* descendant of base with no ".." component below base.
C1_ResolveNeverEscapes ==
    path_pc = "resolved" =>
        /\ EscapeAttempt(url_path) => resolved = None
        /\ resolved.tag = "Some" => IsWithin(base, resolved.val)

\* resolve_path has rejected a path that pops "a" and then pops again.
C1_Witness ==
    /\ path_pc = "resolved"
    /\ url_path = <<"a", "/", ".", ".", "/", ".", ".">>
    /\ resolved = None

\* C2: the path serve opens is base or a descendant of base, for every raw
\* path its guard lets through.
C2_ServeOpensWithinBase ==
    (path_pc = "served" /\ opened.tag = "Some") => IsWithin(base, opened.val)

\* A raw path the claim wants rejected: a segment that starts with "."
\* and is neither "." nor "..", or a "*" anywhere, or a backslash anywhere.
Forbidden(path) ==
    \/ \E i \in 1..Len(Split(path)) :
           LET seg == Split(path)[i]
           IN  seg # <<>> /\ seg[1] = "." /\ seg # Dot /\ seg # DotDot
    \/ \E i \in 1..Len(path) : path[i] = "*"
    \/ \E i \in 1..Len(path) : path[i] = "\\"

\* C3: the guard rejects every raw path with a hidden segment, a "*"
\* anywhere or a single backslash anywhere: serve answers 404 and opens
\* nothing.
C3_GuardRejectsForbidden ==
    (path_pc = "served" /\ Forbidden(url_path)) =>
        (response = not_found_response /\ opened = None)

\* C4: serve answers 404 with an empty body, and opens no file, for every
\* raw path with a ".." segment in any position.
C4_DotDotIs404 ==
    (path_pc = "served" /\ HasDotDotSegment(url_path)) =>
        (response = not_found_response /\ opened = None)

\* serve has answered a path whose ".." stays inside base ("a/../a").
C4_Witness ==
    /\ path_pc = "served"
    /\ url_path = <<"a", "/", ".", ".", "/", "a">>
    /\ response = not_found_response

(***************************************************************************)
(* utils.rs: the sizing helper                                              *)
(***************************************************************************)
\* buffer_size without the cap.
buffer_size_uncapped(remain) == remain

\* A u64 or a usize is written as four 16-bit digits, the most
\* significant first.
DigitBase == 2^16

ToDigits(n) == <<0, 0, n \div DigitBase, n % DigitBase>>
FromDigits(d) == d[3] * DigitBase + d[4]

Zero == <<0, 0, 0, 0>>

Less(a, b) ==
    \E i \in 1..4 : a[i] < b[i] /\ \A j \in 1..(i - 1) : a[j] = b[j]

\* std::cmp::min
min(a, b) == IF Less(b, a) THEN b ELSE a

\* buffer_size that always answers a whole buffer.
buffer_size_whole(remain) == MAX_BUFFER_SIZE

\* `remain as usize`: the cast keeps the low usize_bits bits.
as_usize(remain, bits) ==
    IF bits = 32 THEN <<0, 0, remain[3], remain[4]>> ELSE remain

\* buffer_size on a target whose usize has `bits` bits.
buffer_size_usize(remain, bits) ==
    min(as_usize(remain, bits), ToDigits(MAX_BUFFER_SIZE))

\* buffer_size as read_worker calls it: its remain is range.end -
\* range.start, the result a buffer length.
buffer_size(remain) ==
    FromDigits(buffer_size_usize(ToDigits(remain), usize_bits))

\* The u64 arguments: every digit around 0, around MAX_BUFFER_SIZE's
\* leading digit, or the largest digit.
Digits ==
    LET m == MAX_BUFFER_SIZE \div DigitBase
    IN  {0, 1, m - 1, m, m + 1, DigitBase - 1}

U64s == {<<a, b, c, d>> : a \in Digits, b \in Digits, c \in Digits, d \in Digits}

\* The widths of usize on the targets of the crate.
UsizeBits == {32, 64}

InitSize ==
    /\ base = <<>>
    /\ url_path = <<>>
    /\ params = None
    /\ files = {}
    /\ io = "none"
    /\ path_pc = "idle"
    /\ resolved = None
    /\ opened = None
    /\ response = NoResponse
    /\ StreamIdle
    /\ remaining \in U64s
    /\ usize_bits \in UsizeBits
    /\ size_pc = "call"
    /\ buf_size = Zero

\* A call of buffer_size(remaining).
BufferSize ==
    /\ size_pc = "call"
    /\ buf_size' = buffer_size_usize(remaining, usize_bits)
    /\ size_pc' = "returned"
    /\ UNCHANGED <<remaining, usize_bits, path_vars, stream_vars>>

NextSize == BufferSize

SpecSize == InitSize /\ [][NextSize]_vars

\* C14: buffer_size(remaining) is min(remaining, MAX_BUFFER_SIZE) for every
\* u64 remaining: at most MAX_BUFFER_SIZE, at most remaining, and 0 exactly
\* when remaining is 0, also when remaining does not fit in usize.
C14_BufferSizeIsMin ==
    size_pc = "returned" =>
        /\ buf_size = min(remaining, ToDigits(MAX_BUFFER_SIZE))
        /\ ~Less(ToDigits(MAX_BUFFER_SIZE), buf_size)
        /\ ~Less(remaining, buf_size)
        /\ buf_size = Zero <=> remaining = Zero

(***************************************************************************)
(* file_stream.rs: new_file_stream, read_worker and its consumer.           *)
(*                                                                          *)
(* A chunk is the slice of the file a read returned: off is the file's      *)
(* cursor when the read was made, len the number of bytes read, so that the *)
(* chunk's bytes are the file's bytes in [off, off + len).                  *)
(*                                                                          *)
(* futures::channel::mpsc: a send pushes the message and parks the sender   *)
(* when the queue then holds more than the channel's buffer; a receive      *)
(* pops a message and unparks the sender; sending to a channel whose        *)
(* receiver is gone is an error; the stream ends when the queue is empty    *)
(* and every sender is dropped.                                             *)
(***************************************************************************)
MaxShortReads == 2

\* The consumer's log is cut off here; only a stream that never ends
\* reaches it.
MaxItems == MaxShortReads + 4

Chunk(off, len) == [ok |-> TRUE, off |-> off, len |-> len, kind |-> "chunk"]
Error(kind) == [ok |-> FALSE, off |-> 0, len |-> 0, kind |-> kind]

\* channel(0)
ChannelBuffer == 0

InitStream ==
    /\ base = <<>>
    /\ url_path = <<>>
    /\ params = None
    /\ files = {}
    /\ io = "none"
    /\ path_pc = "idle"
    /\ resolved = None
    /\ opened = None
    /\ response = NoResponse
    /\ file_len \in Offsets
    /\ range0 \in {r \in [start : Offsets, end : Offsets] : r.start <= r.end}
    /\ range = range0
    /\ file_pos = 0
    /\ nfs_pc = "idle"
    /\ pc = "unspawned"
    /\ item = NoItem
    /\ queue = <<>>
    /\ parked = FALSE
    /\ senders = 0
    /\ rx = "none"
    /\ received = <<>>
    /\ short_reads = 0
    /\ eof_reads = 0
    /\ pool_threads = PoolSize
    /\ SizeIdle

\* A task of the pool is polled by one of its live threads.
pool_alive == pool_threads > 0

\* new_file_stream up to the spawn: channel(0) makes one Sender and the
\* Receiver; the worker is spawned with sender.clone().
NewFileStream ==
    /\ nfs_pc = "idle"
    /\ nfs_pc' = "spawned"
    /\ senders' = 1 + 1
    /\ rx' = "held"
    /\ pc' = "seek"
    /\ UNCHANGED <<file_len, file_pos, range, range0, item, queue, parked,
                   received, short_reads, eof_reads, pool_threads,
                   path_vars, size_vars>>

\* new_file_stream returning with its local sender kept alive.
NewFileStreamReturn_KeepSender ==
    /\ nfs_pc = "spawned"
    /\ nfs_pc' = "returned"
    /\ senders' = senders
    /\ rx' = "open"
    /\ UNCHANGED <<file_len, file_pos, range, range0, pc, item, queue, parked,
                   received, short_reads, eof_reads, pool_threads,
                   path_vars, size_vars>>

\* new_file_stream returns the receiver; its local `sender` goes out of
\* scope and is dropped.
NewFileStreamReturn ==
    /\ nfs_pc = "spawned"
    /\ nfs_pc' = "returned"
    /\ senders' = senders - 1
    /\ rx' = "open"
    /\ UNCHANGED <<file_len, file_pos, range, range0, pc, item, queue, parked,
                   received, short_reads, eof_reads, pool_threads,
                   path_vars, size_vars>>

\* file.seek(SeekFrom::Start(range.start)): on an error the worker sends
\* it and returns.
Seek ==
    /\ pc = "seek"
    /\ pool_alive
    /\ \E ok \in BOOLEAN :
         IF ok
         THEN /\ file_pos' = range.start
              /\ pc' = "loop"
              /\ item' = item
         ELSE /\ file_pos' = file_pos
              /\ pc' = "send"
              /\ item' = Error("seek")
    /\ UNCHANGED <<file_len, range, range0, nfs_pc, queue, parked, senders,
                   rx, received, short_reads, eof_reads, pool_threads,
                   path_vars, size_vars>>

\* What file.read can return for a buffer of buf bytes: 0 at end of file
\* (or for an empty buffer), otherwise at least one byte and at most what
\* the buffer and the file hold.
ReadLengths(buf) ==
    LET avail == IF file_len > file_pos THEN file_len - file_pos ELSE 0
        full == Min(buf, avail)
    IN  IF full = 0 THEN {0}
        ELSE {full} \cup (IF short_reads < MaxShortReads
                          THEN {1, full - 1} \cap 1..(full - 1)
                          ELSE {})

\* range.start advanced by the buffer's length instead of the read's.
advance_by_buffer(start, length, buflen) == start + buflen

\* range.start += length
advance(start, length, buflen) == start + length

\* One turn of the loop: the read, and on Ok the advance of range.start and
\* the truncated buffer as the next item to send; on Err the error as the
\* next item.
Read ==
    /\ pc = "loop"
    /\ pool_alive
    /\ range.start < range.end
    /\ LET buf == buffer_size(range.end - range.start)
       IN  \/ \E length \in ReadLengths(buf) :
                 /\ range' = [range EXCEPT !.start = advance(@, length, buf)]
                 /\ item' = Chunk(file_pos, length)
                 /\ file_pos' = file_pos + length
                 /\ short_reads' = IF length > 0 /\ length < Min(buf, file_len - file_pos)
                                   THEN short_reads + 1 ELSE short_reads
                 /\ eof_reads' = IF length = 0 THEN eof_reads + 1 ELSE eof_reads
           \/ /\ item' = Error("read")
              /\ UNCHANGED <<range, file_pos, short_reads, eof_reads>>
    /\ pc' = "send"
    /\ UNCHANGED <<file_len, range0, nfs_pc, queue, parked, senders, rx,
                   received, pool_threads, path_vars, size_vars>>

\* The loop's condition is false: read_worker returns and its sender is
\* dropped.
WorkerReturn ==
    /\ pc = "loop"
    /\ pool_alive
    /\ ~(range.start < range.end)
    /\ pc' = "done"
    /\ senders' = senders - 1
    /\ UNCHANGED <<file_len, file_pos, range, range0, nfs_pc, item, queue,
                   parked, rx, received, short_reads, eof_reads, pool_threads,
                   path_vars, size_vars>>

receiver_gone == rx = "dropped"

\* sender.send(item): the sink is ready and the item is pushed, or the
\* receiver is gone, send returns Err and unwrap panics: the unwinding
\* drops the worker's sender and, the pool's threads running their tasks
\* without catch_unwind, ends the pool thread that polled the task.
SendStart ==
    /\ pc = "send"
    /\ pool_alive
    /\ ~parked
    /\ IF receiver_gone
       THEN /\ pc' = "panicked"
            /\ senders' = senders - 1
            /\ pool_threads' = pool_threads - 1
            /\ UNCHANGED <<queue, parked>>
       ELSE /\ queue' = Append(queue, item)
            /\ parked' = (Len(queue) + 1 > ChannelBuffer)
            /\ pc' = "flush"
            /\ senders' = senders
            /\ pool_threads' = pool_threads
    /\ UNCHANGED <<file_len, file_pos, range, range0, nfs_pc, item, rx,
                   received, short_reads, eof_reads, path_vars, size_vars>>

\* A flush that never waits for the consumer.
flush_always_ready == TRUE

\* The send's flush is over when the sender is no longer parked (the
\* consumer took a message) or the receiver is gone.
flush_ready == ~parked \/ receiver_gone

\* SendDone without the return after an error item: the loop goes on.
SendDone_NoReturn ==
    /\ pc = "flush"
    /\ pool_alive
    /\ flush_ready
    /\ pc' = "loop"
    /\ UNCHANGED <<file_len, file_pos, range, range0, nfs_pc, item, queue,
                   senders, parked, rx, received, short_reads, eof_reads,
                   pool_threads, path_vars, size_vars>>

\* sender.send(item).await returns Ok: after an error item read_worker
\* returns, after a chunk it goes round the loop.
SendDone ==
    /\ pc = "flush"
    /\ pool_alive
    /\ flush_ready
    /\ IF item.ok
       THEN pc' = "loop" /\ senders' = senders
       ELSE pc' = "done" /\ senders' = senders - 1
    /\ UNCHANGED <<file_len, file_pos, range, range0, nfs_pc, item, queue,
                   parked, rx, received, short_reads, eof_reads, pool_threads,
                   path_vars, size_vars>>

\* The consumer polls the receiver: it takes the next message, which
\* unparks the sender, or sees the end of the stream.
Recv ==
    /\ rx = "open"
    /\ IF queue # <<>>
       THEN /\ Len(received) < MaxItems
            /\ received' = Append(received, Head(queue))
            /\ queue' = Tail(queue)
            /\ parked' = FALSE
            /\ rx' = rx
       ELSE /\ senders = 0
            /\ rx' = "eos"
            /\ UNCHANGED <<received, queue, parked>>
    /\ UNCHANGED <<file_len, file_pos, range, range0, nfs_pc, pc, item,
                   senders, short_reads, eof_reads, pool_threads,
                   path_vars, size_vars>>

\* The consumer drops the receiver: the channel is closed, its messages
\* are dropped and the parked sender is woken.
DropReceiver ==
    /\ rx = "open"
    /\ rx' = "dropped"
    /\ queue' = <<>>
    /\ parked' = FALSE
    /\ UNCHANGED <<file_len, file_pos, range, range0, nfs_pc, pc, item,
                   senders, received, short_reads, eof_reads, pool_threads,
                   path_vars, size_vars>>

Worker == Seek \/ Read \/ WorkerReturn \/ SendStart \/ SendDone

NextStream ==
    \/ NewFileStream
    \/ NewFileStreamReturn
    \/ Worker
    \/ Recv
    \/ DropReceiver

SpecStream == InitStream /\ [][NextStream]_vars

\* The pool runs a spawned task, new_file_stream runs to its return, and
\* the consumer keeps polling a receiver it holds.
LiveStream ==
    /\ InitStream
    /\ [][NextStream]_vars
    /\ WF_vars(NewFileStreamReturn)
    /\ WF_vars(Worker)
    /\ WF_vars(Recv)

(***************************************************************************)
(* Properties of the chunked reader (under SpecStream and LiveStream).      *)
(***************************************************************************)
RECURSIVE TotalLen(_)
TotalLen(items) ==
    IF items = <<>> THEN 0 ELSE Head(items).len + TotalLen(Tail(items))

IsOk(x) == x.ok
Chunks(items) == SelectSeq(items, IsOk)
NoErrors(items) == \A i \in 1..Len(items) : items[i].ok

\* Each chunk starts where the one before it ended, the first one at s:
\* together they are the file's bytes in [s, s + TotalLen(chunks)), in
\* order, with no gap and no overlap.
Contiguous(chunks, s) ==
    \A i \in 1..Len(chunks) :
        chunks[i].off = s + TotalLen(SubSeq(chunks, 1, i - 1))

\* C5: when the file holds the whole range, no seek or read error occurs
\* and the consumer drains the stream to its end, the chunks' lengths sum
\* to e - s and their concatenation is the file's bytes in [s, e).
C5_DrainedStreamIsTheRange ==
    (rx = "eos" /\ file_len >= range0.end /\ NoErrors(received)) =>
        /\ TotalLen(received) = range0.end - range0.start
        /\ Contiguous(received, range0.start)

\* A stream of more than one buffer, drained to its end, with a short
\* read of one byte in it.
C5_Witness ==
    /\ rx = "eos"
    /\ file_len >= range0.end
    /\ NoErrors(received)
    /\ range0.end - range0.start > MAX_BUFFER_SIZE
    /\ Len(received) >= 3
    /\ \E i \in 1..Len(received) : received[i].len = 1

\* C6: once a read has returned 0 bytes with range.start below range.end,
\* the worker has stopped: no chunk for that read, no further read.
C6_EofStopsWorker ==
    eof_reads > 0 => (pc = "done" /\ eof_reads = 1)

\* C7: after the consumer has dropped the receiver the worker ends
\* normally: it never ends in a panic.
C7_DropEndsWorkerNormally ==
    receiver_gone => pc # "panicked"

\* C8: the worker never reads the next chunk, nor holds it, while a chunk
\* it sent is still unreceived, and the channel never holds more than its
\* capacity (its buffer plus one slot for the worker's sender).
C8_Backpressure ==
    /\ Len(queue) <= ChannelBuffer + 1
    /\ (pc \in {"loop", "send"} /\ ~receiver_gone) => queue = <<>>
    /\ (pc = "flush" /\ ~receiver_gone /\ queue # <<>>) => parked

\* The worker is suspended in the send of its second item, which the
\* consumer holding the receiver has not taken yet.
C8_Witness ==
    /\ pc = "flush"
    /\ parked
    /\ rx = "open"
    /\ Len(queue) = 1
    /\ Len(received) = 1

\* The worker left the loop with the range served, and the consumer has
\* every chunk.
RangeServed ==
    /\ pc = "done"
    /\ range.start = range.end
    /\ queue = <<>>
    /\ ~receiver_gone
    /\ NoErrors(received)
    /\ received # <<>>

\* C9: the chunks received so far are the file's bytes from s on, in
\* order, with no gap and no overlap; no chunk is longer than
\* MAX_BUFFER_SIZE; and when the range is served the last chunk ends at e.
C9_ChunksInOrder ==
    LET chunks == Chunks(received)
    IN  /\ Contiguous(chunks, range0.start)
        /\ \A i \in 1..Len(chunks) : chunks[i].len <= MAX_BUFFER_SIZE
        /\ RangeServed =>
             chunks[Len(chunks)].off + chunks[Len(chunks)].len = range0.end

\* A served range whose first chunk is a full buffer, followed by more.
C9_Witness ==
    /\ RangeServed
    /\ Len(received) >= 2
    /\ received[1].len = MAX_BUFFER_SIZE

\* The loop's condition has become false.
RangeFullyConsumed == pc = "loop" /\ ~(range.start < range.end)

\* C10: once the range is fully consumed the worker exits and every sender
\* of the channel is dropped, and the consumer, unless it drops the
\* receiver itself, observes the end of the stream; for an empty range it
\* observes it with no chunk delivered.
C10_StreamEnds ==
    /\ RangeFullyConsumed ~> (senders = 0)
    /\ RangeFullyConsumed ~> (rx = "eos" \/ receiver_gone)
    /\ (RangeFullyConsumed /\ range0.start = range0.end)
          ~> ((rx = "eos" /\ received = <<>>) \/ receiver_gone)

\* The consumer has seen the end of a stream after its last chunk, with
\* the worker done and no sender left.
C10_Witness ==
    /\ rx = "eos"
    /\ pc = "done"
    /\ senders = 0
    /\ range.start = range.end
    /\ Len(received) >= 1
    /\ NoErrors(received)

\* Everything the worker has put on the channel and the consumer has not
\* thrown away: what was received, then what is queued.
Emitted == received \o queue

\* C11: a seek or read failure is the last item of the stream: nothing is
\* emitted after an error item, the worker that emitted it is in that
\* send or has returned (it reads no more, retries nothing), a seek error
\* is the only item of its stream, and the chunks before a read error are
\* the file's bytes from s on with nothing of the failed read among them.
C11_ErrorIsTerminal ==
    /\ \A i \in 1..Len(Emitted) :
         ~Emitted[i].ok =>
            /\ i = Len(Emitted)
            /\ pc \in {"flush", "done"}
            /\ item = Emitted[i]
            /\ Emitted[i].kind = "seek" => Len(Emitted) = 1
            /\ Emitted[i].kind \in {"seek", "read"}
    /\ Contiguous(Chunks(Emitted), range0.start)
    /\ (pc = "done" /\ ~item.ok /\ ~receiver_gone) =>
         TotalLen(Chunks(Emitted)) = range.start - range0.start

\* A read failed after two chunks: the consumer has the two chunks and
\* then the error, and the worker has returned.
C11_Witness ==
    /\ pc = "done"
    /\ Len(received) = 3
    /\ received[1].ok /\ received[2].ok
    /\ received[3] = Error("read")
    /\ queue = <<>>


(***************************************************************************)
(* Properties of FileRequest::work and of Endpoint::call (under SpecPath).  *)
(***************************************************************************)
\* C12: a failure to open the file is answered 404 by serve and by
\* FileRequest::work alike; 500 is answered only for a metadata failure.
C12_OpenFailureIs404 ==
    /\ io = "open_err" => response.status = 404
    /\ response.status = 500 => io = "meta_err"

\* C13: no operation ends by panicking, whatever the request path, the
\* number of matched segments and the outcome of open, metadata, seek, read
\* and send: neither call, serve or work, nor read_worker.
C13_NoOperationPanics ==
    /\ response # Panicked
    /\ pc # "panicked"

(***************************************************************************)
(* Percent-encoding and the shape of resolved paths (under SpecPath).       *)
(***************************************************************************)
Encoded == <<"a", "%", "2", "F">>

\* Every segment of the path is a name, and one of them holds "%2F".
EncodedPath(path) ==
    /\ \A i \in 1..Len(Split(path)) : Ordinary(Split(path)[i])
    /\ \E i \in 1..Len(Split(path)) : Split(path)[i] = Encoded

\* C15: percent-encoding is not interpreted: for a path of names of which
\* one holds "%2F", the components resolve_path returns and the components
\* serve opens are base's followed by the raw segments, and serve answers
\* 404 with an empty body unless a file of exactly these names is there.
C15_PercentIsLiteral ==
    EncodedPath(url_path) =>
        /\ path_pc \in {"resolved", "worked"} =>
             /\ resolved.tag = "Some"
             /\ Components(resolved.val) = Components(base) \o Split(url_path)
        /\ path_pc = "served" =>
             /\ opened.tag = "Some" =>
                  Components(opened.val) = Components(base) \o Split(url_path)
             /\ Split(url_path) \notin files => response = not_found_response

\* serve has answered 404 for "a%2F/a" with only a/a there, having tried
\* the literal path.
C15_Witness ==
    /\ path_pc = "served"
    /\ url_path = <<"a", "%", "2", "F", "/", "a">>
    /\ files = {<<(<<"a">>), (<<"a">>)>>}
    /\ opened.tag = "Some"
    /\ Below(base, opened.val) = <<Encoded, (<<"a">>)>>
    /\ response = not_found_response

\* The segments of the path that are names, in their order.
OrdinarySegs(path) == SelectSeq(Split(path), Ordinary)

\* Every segment of the path is "." or a name.
DotsAndNames(path) ==
    \A i \in 1..Len(Split(path)) :
        Split(path)[i] = Dot \/ Ordinary(Split(path)[i])

\* b, a separator if b does not end in one, and the segments joined by "/".
LexicalJoin(b, segs) ==
    (IF b[Len(b)] = "/" THEN b ELSE b \o <<"/">>) \o JoinSegs(segs)

\* C16: for a path whose segments are only "." and names, resolve_path
\* returns Some of base joined with the names in their order: the same
\* components, and the same string when there is a name at all.
C16_DotsAreDropped ==
    (path_pc \in {"resolved", "worked"} /\ DotsAndNames(url_path)) =>
        /\ resolved.tag = "Some"
        /\ Components(resolved.val)
             = Components(base) \o OrdinarySegs(url_path)
        /\ OrdinarySegs(url_path) # <<>> =>
             resolved.val = LexicalJoin(base, OrdinarySegs(url_path))

\* resolve_path has resolved "a/./.a" below "/b" to "/b/a/.a".
C16_Witness ==
    /\ path_pc = "resolved"
    /\ base = <<"/", "b">>
    /\ url_path = <<"a", "/", ".", "/", ".", "a">>
    /\ resolved = Some(<<"/", "b", "/", "a", "/", ".", "a">>)

\* C17: when the route match has a number of segments other than one,
\* Endpoint::call ends in a panic: it produces no response and serve is
\* not run.
C17_WrongSegmentCountPanics ==
    (/\ params.tag = "Some"
     /\ params.val # 1
     /\ path_pc \in {"called", "served"}) =>
        /\ path_pc = "called"
        /\ response = Panicked
        /\ opened = None

\* call has panicked on a route match of two segments.
C17_Witness ==
    /\ path_pc = "called"
    /\ params = Some(2)
    /\ response = Panicked

(***************************************************************************)
(* What ".." removes (under SpecPath).                                      *)
(***************************************************************************)
\* The accumulator as a list of segments in which every segment other than
\* "." and ".." is one element, the empty segment too; None when a ".."
\* finds the list empty.
RECURSIVE SegmentList(_, _)
SegmentList(acc, segs) ==
    IF segs = <<>> THEN Some(acc)
    ELSE IF Head(segs) = Dot THEN SegmentList(acc, Tail(segs))
    ELSE IF Head(segs) = DotDot
         THEN IF acc = <<>> THEN None
              ELSE SegmentList(SubSeq(acc, 1, Len(acc) - 1), Tail(segs))
    ELSE SegmentList(Append(acc, Head(segs)), Tail(segs))

\* The accumulator as a list of names: the empty segment adds nothing.
RECURSIVE NameList(_, _)
NameList(acc, segs) ==
    IF segs = <<>> THEN Some(acc)
    ELSE IF Head(segs) = Dot \/ Head(segs) = <<>>
         THEN NameList(acc, Tail(segs))
    ELSE IF Head(segs) = DotDot
         THEN IF acc = <<>> THEN None
              ELSE NameList(SubSeq(acc, 1, Len(acc) - 1), Tail(segs))
    ELSE NameList(Append(acc, Head(segs)), Tail(segs))

NonEmpty(seg) == seg # <<>>

\* C18 as stated: ".." removes the segment appended last, an empty segment
\* counting as one: resolve_path rejects exactly when the list of segments
\* is empty at a "..", and otherwise returns base followed by the list
\* ("a//../b" gives base/a/b, "/.." gives base).
C18_EmptySegmentsCount ==
    path_pc \in {"resolved", "worked"} =>
        LET list == SegmentList(<<>>, Split(url_path))
        IN  /\ resolved = None <=> list = None
            /\ (resolved.tag = "Some" /\ list.tag = "Some") =>
                  Components(resolved.val)
                    = Components(base) \o SelectSeq(list.val, NonEmpty)

\* C18: ".." removes the name appended last and not yet removed, and only
\* names are appended (an empty segment adds no component): resolve_path
\* rejects exactly when at some prefix of the path the ".." segments
\* outnumber the names, and otherwise returns base followed by the names
\* left ("a//.." gives base, "/.." is rejected).
C18_DotDotRemovesLastName ==
    path_pc \in {"resolved", "worked"} =>
        LET list == NameList(<<>>, Split(url_path))
        IN  /\ resolved = None <=> EscapeAttempt(url_path)
            /\ resolved = None <=> list = None
            /\ resolved.tag = "Some" =>
                  Components(resolved.val) = Components(base) \o list.val

\* resolve_path has resolved "a//.." to base: the ".." after the empty
\* segment removed "a".
C18_Witness ==
    /\ path_pc = "resolved"
    /\ url_path = <<"a", "/", "/", ".", ".">>
    /\ resolved.tag = "Some"
    /\ Components(resolved.val) = Components(base)

(***************************************************************************)
(* The pool and the cursor (under SpecStream).                              *)
(***************************************************************************)
\* C19: the pool keeps its full capacity whatever the stream does: when
\* the stream completes, fails or is cancelled, the thread that ran its
\* read_worker is back in FILE_IO_POOL.
C19_PoolKeepsCapacity == pool_threads = PoolSize

\* The cursor is within the range, whose end does not move; every chunk
\* sent or about to be sent lies within [s, e), and the chunks sent hold at
\* most e - s bytes.
CursorWithinRange ==
    /\ range0.start <= range.start
    /\ range.start <= range.end
    /\ range.end = range0.end
    /\ \A i \in 1..Len(Chunks(Emitted)) :
         /\ Chunks(Emitted)[i].off >= range0.start
         /\ Chunks(Emitted)[i].off + Chunks(Emitted)[i].len <= range0.end
    /\ (pc \in {"send", "flush"} /\ item.ok) =>
         item.off + item.len <= range0.end
    /\ TotalLen(Chunks(Emitted)) <= range0.end - range0.start

\* A step does not move the cursor back, and a read returns no more than
\* was left of the range when it was issued.
CursorAdvances ==
    /\ range'.start >= range.start
    /\ (pc = "loop" /\ pc' = "send" /\ item'.ok) =>
         /\ item'.len <= range.end - range.start
         /\ range'.start = range.start + item'.len

\* C20: read_worker's cursor range.start never decreases and never exceeds
\* range.end; every read is for at most range.end - range.start bytes, so
\* the stream delivers at most e - s bytes and no byte at offset e or
\* beyond, also when the file is longer than e.
C20_CursorWithinRange == [](CursorWithinRange) /\ [][CursorAdvances]_vars

\* A stream over a range that ends before the file does has delivered the
\* whole range, in more than one chunk, and stopped at e.
C20_Witness ==
    /\ pc = "done"
    /\ file_len > range0.end
    /\ range.start = range.end
    /\ Len(received) >= 2
    /\ NoErrors(received)
    /\ TotalLen(received) = range0.end - range0.start

=============================================================================
